---- MODULE Spec2Model ----
(***************************************************************************)
(* The sitemap / robots / analytics middleware of src/seo.go.              *)
(*                                                                         *)
(* Go strings and byte slices are sequences of one-character strings, so   *)
(* prefix tests, substring search, case folding, lexicographic order and   *)
(* the gzip framing are computed element by element.                       *)
(***************************************************************************)
EXTENDS Integers, Sequences, FiniteSets, TLC

(***************************************************************************)
(* Bytes.  Chars lists the bytes the model uses in ascending byte order;   *)
(* Ord is the position in it, which orders two bytes as their byte values  *)
(* do (Go compares strings bytewise).                                      *)
(***************************************************************************)
Chars ==
  <<"\n", " ", "*", "-", ".", "/", "0", "1", "2", "3", "4", "5", "6", "7", "8", "9",
    ":", ";", "<", "=", ">",
    "A", "B", "C", "D", "E", "F", "G", "H", "I", "J", "K", "L", "M",
    "N", "O", "P", "Q", "R", "S", "T", "U", "V", "W", "X", "Y", "Z",
    "_",
    "a", "b", "c", "d", "e", "f", "g", "h", "i", "j", "k", "l", "m",
    "n", "o", "p", "q", "r", "s", "t", "u", "v", "w", "x", "y", "z",
    "~">>

CharSet == {Chars[i] : i \in DOMAIN Chars}

RECURSIVE Positions(_, _)
Positions(s, i) ==
  IF i > Len(s) THEN <<>> ELSE (s[i] :> i) @@ Positions(s, i + 1)

Ord == Positions(Chars, 1)

Upper ==
  <<"A", "B", "C", "D", "E", "F", "G", "H", "I", "J", "K", "L", "M",
    "N", "O", "P", "Q", "R", "S", "T", "U", "V", "W", "X", "Y", "Z">>

Lower ==
  <<"a", "b", "c", "d", "e", "f", "g", "h", "i", "j", "k", "l", "m",
    "n", "o", "p", "q", "r", "s", "t", "u", "v", "w", "x", "y", "z">>

Digits == <<"0", "1", "2", "3", "4", "5", "6", "7", "8", "9">>

UpperSet == {Upper[i] : i \in DOMAIN Upper}

LowerSet == {Lower[i] : i \in DOMAIN Lower}

DigitSet == {Digits[i] : i \in DOMAIN Digits}

DigitIndex == Positions(Digits, 1)

UpperIndex == Positions(Upper, 1)

\* One byte lowered: an ASCII capital maps to its small letter.
LowerChar(c) == IF c \in UpperSet THEN Lower[UpperIndex[c]] ELSE c

\* strings.ToLower
ToLower(s) == [i \in DOMAIN s |-> LowerChar(s[i])]

\* strings.EqualFold on ASCII text
EqualFold(s, t) == ToLower(s) = ToLower(t)

\* strings.HasPrefix
HasPrefix(s, p) == Len(p) <= Len(s) /\ SubSeq(s, 1, Len(p)) = p

\* strings.HasSuffix
HasSuffix(s, p) ==
  Len(p) <= Len(s) /\ SubSeq(s, Len(s) - Len(p) + 1, Len(s)) = p

\* strings.TrimSuffix: one occurrence of the suffix is removed, if present.
TrimSuffix(s, p) ==
  IF HasSuffix(s, p) THEN SubSeq(s, 1, Len(s) - Len(p)) ELSE s

\* sub occurs in s starting at position i (1-based)
OccursAt(s, sub, i) ==
  i >= 1 /\ i + Len(sub) - 1 <= Len(s) /\ SubSeq(s, i, i + Len(sub) - 1) = sub

\* The least element of a non-empty set of numbers
Least(S) == CHOOSE x \in S : \A y \in S : x <= y

\* strings.Index, 1-based: the first position where sub occurs, 0 if none.
Index(s, sub) ==
  LET at == {i \in 1..(Len(s) - Len(sub) + 1) : SubSeq(s, i, i + Len(sub) - 1) = sub}
  IN  IF at = {} THEN 0 ELSE Least(at)

\* strings.Contains
Contains(s, sub) ==
  \E i \in 1..(Len(s) - Len(sub) + 1) : SubSeq(s, i, i + Len(sub) - 1) = sub

\* The Go operator < on strings: bytewise lexicographic order.
StrLess(s, t) ==
  \E i \in 1..(Len(t)) :
    /\ i <= Len(s) + 1
    /\ \A j \in 1..(i - 1) : s[j] = t[j]
    /\ (i = Len(s) + 1 \/ Ord[s[i]] < Ord[t[i]])

(***************************************************************************)
(* Regular expressions.  Each pattern the program compiles is one of four  *)
(* shapes, and MatchString is the unanchored search of regexp.MatchString  *)
(* for that shape:                                                         *)
(*   fold    (?i)lit        lit occurs anywhere, letters compared folded   *)
(*   prefix  ^lit, ^lit.*   the text starts with lit                       *)
(*   suffix  .*lit$         the text ends with lit                         *)
(*   ext     \.(a|b|..)$    the text ends with "." and one of the words    *)
(* ^/_next/* is ^/_next followed by any number of "/", none included, so   *)
(* it is the prefix /_next.                                                *)
(***************************************************************************)
Fold(lit) == [kind |-> "fold", lit |-> lit, alts |-> {}]

Prefix(lit) == [kind |-> "prefix", lit |-> lit, alts |-> {}]

Suffix(lit) == [kind |-> "suffix", lit |-> lit, alts |-> {}]

Ext(alts) == [kind |-> "ext", lit |-> <<".">>, alts |-> alts]

\* A pattern regexp.Compile rejects: "(" (missing closing parenthesis).
Invalid == [kind |-> "invalid", lit |-> <<"(">>, alts |-> {}]

\* regexp.Compile: the compiled pattern, or an error
Compile(pattern) ==
  IF pattern.kind = "invalid" THEN [re |-> pattern, err |-> TRUE]
  ELSE [re |-> pattern, err |-> FALSE]

MatchString(re, s) ==
  CASE re.kind = "fold" ->
         LET folded == ToLower(s)
             lit == ToLower(re.lit)
         IN  Contains(folded, lit)
    [] re.kind = "prefix" -> HasPrefix(s, re.lit)
    [] re.kind = "suffix" -> HasSuffix(s, re.lit)
    [] re.kind = "ext" -> \E a \in re.alts : HasSuffix(s, re.lit \o a)

defaultPatterns ==
  << Fold(<<".", "e", "n", "v">>),
     Fold(<<".", "b", "a", "k">>),
     Fold(<<".", "o", "l", "d">>),
     Fold(<<".", "e", "x", "a", "m", "p", "l", "e">>),
     Fold(<<".", "e", "x", "m", "a", "p", "l", "e">>),
     Fold(<<".", "s", "a", "m", "p", "l", "e">>),
     Fold(<<".", "t", "m", "p", "l">>),
     Fold(<<".", "t", "p", "l">>),
     Fold(<<".", "d", "i", "s", "t">>),
     Fold(<<".", "~">>),
     Fold(<<".", "p", "h", "p">>),
     Fold(<<".", "a", "s", "p", "x">>),
     Fold(<<"c", "o", "n", "f", "i", "g">>),
     Fold(<<"w", "p", "-">>),
     Fold(<<"s", "i", "t", "e", "m", "a", "p">>),
     Fold(<<"u", "n", "d", "e", "f", "i", "n", "e", "d">>),
     Prefix(<<"/", "_", "n", "e", "x", "t">>),
     Ext({ <<"j", "p", "g">>, <<"j", "p", "e", "g">>, <<"p", "n", "g">>,
           <<"g", "i", "f">>, <<"w", "e", "b", "p">>, <<"s", "v", "g">>,
           <<"b", "m", "p">>, <<"t", "i", "f">>, <<"t", "i", "f", "f">>,
           <<"i", "c", "o">>, <<"t", "x", "t">>, <<"p", "h", "p">>,
           <<"e", "x", "e">>, <<"c", "s", "s">>, <<"j", "s">>,
           <<"j", "s", "o", "n">>, <<"p", "d", "f">>, <<"d", "o", "c">>,
           <<"d", "o", "c", "x">>, <<"x", "l", "s">>, <<"x", "l", "s", "x">>,
           <<"p", "p", "t">>, <<"p", "p", "t", "x">>, <<"m", "p", "3">>,
           <<"m", "p", "4">>, <<"a", "v", "i">>, <<"m", "o", "v">>,
           <<"z", "i", "p">>, <<"r", "a", "r">>, <<"t", "a", "r">>,
           <<"g", "z">>, <<"e", "n", "v">>, <<"h", "t", "m", "l">>,
           <<"x", "m", "l">> }) >>

\* The loop of ServeHTTP over sg.ignores: true iff some pattern matches.
IsIgnored(ignores, path) ==
  \E i \in DOMAIN ignores : MatchString(ignores[i], path)

(***************************************************************************)
(* compress/gzip.  A gzip member is a header, the deflated data and a      *)
(* trailer holding a checksum of the data.  Deflate is run-length coding:  *)
(* each run of one to nine equal bytes becomes the run's length and the    *)
(* byte.  gzip.NewReader fails on a missing header, io.ReadAll on data     *)
(* that does not inflate or on a checksum that does not match.  Streams    *)
(* have one member.                                                        *)
(***************************************************************************)
GzipMagic == "\\x1f\\x8b"

MaxRun == Len(Digits) - 1

\* Length of the run of equal bytes at the head of s, at most MaxRun.
RunLength(s) ==
  CHOOSE n \in 1..Len(s) :
    /\ n <= MaxRun
    /\ \A j \in 1..n : s[j] = s[1]
    /\ (n = MaxRun \/ n = Len(s) \/ s[n + 1] # s[1])

RECURSIVE Deflate(_)
Deflate(s) ==
  IF s = <<>> THEN <<>>
  ELSE LET n == RunLength(s)
       IN  <<Digits[n + 1], s[1]>> \o Deflate(SubSeq(s, n + 1, Len(s)))

CanInflate(z) ==
  /\ Len(z) % 2 = 0
  /\ \A i \in 1..Len(z) : i % 2 = 1 => z[i] \in (DigitSet \ {"0"})

RECURSIVE Inflate(_)
Inflate(z) ==
  IF Len(z) < 2 THEN <<>>
  ELSE LET n == DigitIndex[z[1]] - 1
       IN  [i \in 1..n |-> z[2]] \o Inflate(SubSeq(z, 3, Len(z)))

Weight(c) == IF c \in CharSet THEN Ord[c] ELSE 1

RECURSIVE ByteSum(_)
ByteSum(s) == IF s = <<>> THEN 0 ELSE Weight(s[1]) + ByteSum(Tail(s))

\* The trailer of a member: a digest of the uncompressed data.
Checksum(s) == Digits[((ByteSum(s) + Len(s)) % 10) + 1]

\* gzip.NewWriter, Write, Close into a buffer
Gzip(s) == <<GzipMagic>> \o Deflate(s) \o <<Checksum(s)>>

\* gzip.NewReader returns no error
NewReaderOK(b) == Len(b) >= 1 /\ b[1] = GzipMagic

\* io.ReadAll of the reader returns no error
ReadAllOK(b) ==
  /\ Len(b) >= 2
  /\ CanInflate(SubSeq(b, 2, Len(b) - 1))
  /\ b[Len(b)] = Checksum(Inflate(SubSeq(b, 2, Len(b) - 1)))

\* The bytes io.ReadAll returns
Gunzip(b) == Inflate(SubSeq(b, 2, Len(b) - 1))

(***************************************************************************)
(* The analytics blocks.  The literal text of each template around its %s  *)
(* is one element: it holds neither "</head>" nor an opening body tag.     *)
(* The ">" that closes the comment opening the script block, the block's   *)
(* first ">", is an element of its own: the search for the body tag runs   *)
(* over the text that already holds the script block.                      *)
(***************************************************************************)
gtmScriptTemplate(id) ==
  <<"<!-- Google Tag Manager --", ">", "<script>...'dataLayer','">> \o id
    \o <<"');</script><!-- End Google Tag Manager -->">>

gtmNoscriptTemplate(id) ==
  <<"<!-- Google Tag Manager (noscript) --><noscript><iframe src=...?id=">> \o id
    \o <<"...></iframe></noscript><!-- End Google Tag Manager (noscript) -->">>

HeadClose == <<"<", "/", "h", "e", "a", "d", ">">>

BodyOpen == <<"<", "b", "o", "d", "y">>

\* strings.Replace(s, old, new, 1)
ReplaceFirst(s, old, new) ==
  LET i == Index(s, old)
  IN  IF i = 0 THEN s
      ELSE SubSeq(s, 1, i - 1) \o new \o SubSeq(s, i + Len(old), Len(s))

IsWordChar(c) == c \in UpperSet \cup LowerSet \cup DigitSet \cup {"_"}

\* (?i)<body\b[^>]*> matches s starting at position i: "<body" in any case,
\* then a word boundary, then a ">" somewhere after it.
BodyTagAt(s, i) ==
  /\ i + Len(BodyOpen) - 1 <= Len(s)
  /\ \A k \in DOMAIN BodyOpen : LowerChar(s[i + k - 1]) = BodyOpen[k]
  /\ (i + Len(BodyOpen) > Len(s) \/ ~IsWordChar(s[i + Len(BodyOpen)]))
  /\ \E j \in (i + Len(BodyOpen))..Len(s) : s[j] = ">"

\* re.FindStringIndex(s)[1]: the end of the leftmost match, 0 if no match.
\* [^>]* cannot cross a ">", so the match ends at the first ">" after "<body".
BodyTagEnd(s) ==
  LET starts == {i \in 1..Len(s) : BodyTagAt(s, i)}
  IN  IF starts = {} THEN 0
      ELSE LET i == Least(starts)
           IN  Least({j \in (i + Len(BodyOpen))..Len(s) : s[j] = ">"})

\* The text after both insertions (the rewrite branch of ServeHTTP).
Inject(id, bodyStr) ==
  LET modified == ReplaceFirst(bodyStr, HeadClose, gtmScriptTemplate(id) \o HeadClose)
      insertPos == BodyTagEnd(modified)
  IN  IF insertPos # 0
        THEN SubSeq(modified, 1, insertPos) \o gtmNoscriptTemplate(id)
               \o SubSeq(modified, insertPos + 1, Len(modified))
        ELSE modified

(***************************************************************************)
(* modifyingWriter: the buffering writer handed to the next handler.       *)
(* Header() is the client writer's own header map (embedded                *)
(* ResponseWriter), so the handler's headers land on the client response.  *)
(* rw lists the calls that reached the client writer's Write and           *)
(* WriteHeader through it.                                                 *)
(***************************************************************************)
StatusOK == 200

NewWriter == [status |-> 0, body |-> <<>>, rw |-> <<>>]

\* Write as statusWriter has it: the bytes go on to the client writer
mwWrite_Through(w, b) ==
  [status |-> IF w.status = 0 THEN StatusOK ELSE w.status, body |-> w.body \o b,
   rw |-> Append(w.rw, "Write")]

\* modifyingWriter.Write: the bytes go into the buffer
mwWrite(w, b) ==
  [status |-> IF w.status = 0 THEN StatusOK ELSE w.status, body |-> w.body \o b,
   rw |-> w.rw]

mwWriteHeader(w, code) == [w EXCEPT !.status = code]

Write(b) == [call |-> "Write", code |-> 0, b |-> b]

WriteHeader(code) == [call |-> "WriteHeader", code |-> code, b |-> <<>>]

\* sg.next.ServeHTTP(mw, req): the calls the handler makes, in order.
RECURSIVE RunHandler(_, _)
RunHandler(w, ops) ==
  IF ops = <<>> THEN w
  ELSE RunHandler(IF Head(ops).call = "Write"
                    THEN mwWrite(w, Head(ops).b)
                    ELSE mwWriteHeader(w, Head(ops).code),
                  Tail(ops))

(***************************************************************************)
(* statusWriter: the writer of the version that does not rewrite.  Every   *)
(* call goes on to the client writer; status keeps the first status.       *)
(***************************************************************************)
NewStatusWriter == [status |-> 0, rw |-> <<>>]

\* statusWriter.Write
swWrite(w, b) ==
  [status |-> IF w.status = 0 THEN StatusOK ELSE w.status,
   rw |-> Append(w.rw, "Write")]

\* statusWriter.WriteHeader
swWriteHeader(w, code) ==
  [status |-> IF w.status = 0 THEN code ELSE w.status,
   rw |-> Append(w.rw, "WriteHeader")]

\* sg.next.ServeHTTP(sw, req)
RECURSIVE RunStatusHandler(_, _)
RunStatusHandler(w, ops) ==
  IF ops = <<>> THEN w
  ELSE RunStatusHandler(IF Head(ops).call = "Write"
                          THEN swWrite(w, Head(ops).b)
                          ELSE swWriteHeader(w, Head(ops).code),
                        Tail(ops))

\* DefaultStatus leaving the zero status in place
DefaultStatus_Zero(status) == status

\* if mw.status == 0 { mw.status = http.StatusOK }
DefaultStatus(status) == IF status = 0 THEN StatusOK ELSE status

\* sw.status after the handler returned and the status was defaulted
Tracked(ops) == DefaultStatus(RunStatusHandler(NewStatusWriter, ops).status)

(***************************************************************************)
(* Requests.  xfp is the X-Forwarded-Proto header ("" when absent),        *)
(* scheme is req.URL.Scheme, host is req.Host, path is req.URL.Path.       *)
(***************************************************************************)
SchemeSep == <<":", "/", "/">>

Slash == <<"/">>

RequestScheme(req) == IF req.xfp = <<>> THEN req.scheme ELSE req.xfp

\* base := scheme + "://" + req.Host
Base(req) == RequestScheme(req) \o SchemeSep \o req.host

\* fullURL := scheme + "://" + host + strings.TrimSuffix(path, "/")
FullURL(req) == Base(req) \o TrimSuffix(req.path, Slash)

(***************************************************************************)
(* The response handling of ServeHTTP after the next handler returned.     *)
(***************************************************************************)
TextHTML == <<"t", "e", "x", "t", "/", "h", "t", "m", "l">>

GzipName == <<"g", "z", "i", "p">>

\* sg.gtmID != "" && HasPrefix(ToLower(contentType), "text/html") && status == 200
ShouldRewrite(gtmID, contentType, status) ==
  gtmID # <<>> /\ HasPrefix(ToLower(contentType), TextHTML) /\ status = StatusOK

\* ShouldRecord with the status test dropped
ShouldRecord_AnyStatus(ignored, status) == ~ignored

\* ShouldRecord with the ignore test dropped
ShouldRecord_AnyPath(ignored, status) == status = StatusOK

\* if !ignored && mw.status == http.StatusOK
ShouldRecord(ignored, status) == ~ignored /\ status = StatusOK

\* Record keeping only the URL just recorded
Record_Replace(registry, fullURL) == {fullURL}

\* sg.paths[fullURL] = struct{}{}
Record(registry, fullURL) == registry \cup {fullURL}

\* PassthroughBody writing the working copy, which is the decompressed text
\* when the response was gzip encoded
PassthroughBody_WorkingCopy(buffered, bodyBytes) == bodyBytes

\* The body of the else branch: rw.Write(mw.body.Bytes())
PassthroughBody(buffered, bodyBytes) == buffered

\* The body written when gzip.NewReader or io.ReadAll failed: rw.Write(bodyBytes)
DecompressFallbackBody(buffered, bodyBytes) == bodyBytes

\* CompressFallbackBody writing the rewritten text
CompressFallbackBody_Modified(buffered, modified) == modified

\* The body written when the gzip writer failed: rw.Write(mw.body.Bytes())
CompressFallbackBody(buffered, modified) == buffered

\* RewrittenBody with the recompression forgotten
RewrittenBody_NoRecompress(isGzipped, modified) == modified

\* bodyBytes after the optional recompression of the rewritten text
RewrittenBody(isGzipped, modified) ==
  IF isGzipped THEN Gzip(modified) ELSE modified

\* DelContentLength leaving the header in place
DelContentLength_Keep(header) == header

\* rw.Header().Del("Content-Length")
DelContentLength(header) == [header EXCEPT !.ContentLength = <<>>]

\* What ServeHTTP writes to the client, and whether control reaches the
\* recording test at its end; early are the calls that reached the client
\* writer while the handler ran, calls the calls ServeHTTP makes on it after
\* the handler returned, in order.  mw is the writer after the handler returned
\* and the status was defaulted; writeErr tells whether the gzip writer's
\* Write returns an error.
Respond(gtmID, mw, header, writeErr) ==
  LET bodyBytes == mw.body
      isGzipped == EqualFold(header.ContentEncoding, GzipName)
      out(branch, body, hdr, reachesEnd) ==
        [branch |-> branch, status |-> mw.status, body |-> body,
         header |-> hdr, reachesEnd |-> reachesEnd,
         early |-> mw.rw,
         calls |-> IF branch = "rewrite" THEN <<"Header.Del", "WriteHeader", "Write">>
                   ELSE <<"WriteHeader", "Write">>]
  IN  IF isGzipped /\ ~NewReaderOK(bodyBytes)
        THEN out("newReaderErr", DecompressFallbackBody(mw.body, bodyBytes),
                 header, FALSE)
      ELSE IF isGzipped /\ ~ReadAllOK(bodyBytes)
        THEN out("readAllErr", DecompressFallbackBody(mw.body, bodyBytes),
                 header, FALSE)
      ELSE
        LET bodyStr == IF isGzipped THEN Gunzip(bodyBytes) ELSE bodyBytes
        IN  IF ShouldRewrite(gtmID, header.ContentType, mw.status)
              THEN LET modified == Inject(gtmID, bodyStr)
                   IN  IF isGzipped /\ writeErr
                         THEN out("gzipWriteErr",
                                  CompressFallbackBody(mw.body, modified),
                                  header, FALSE)
                         ELSE out("rewrite", RewrittenBody(isGzipped, modified),
                                  DelContentLength(header), TRUE)
              ELSE out("passthrough", PassthroughBody(mw.body, bodyStr),
                       header, TRUE)

(***************************************************************************)
(* buildSitemapXML and buildRobotsTxt.                                     *)
(***************************************************************************)
\* now.Format("2006-01-02T15:04:05Z") for the instant now seconds after
\* 2006-01-02T15:04:00Z
FormatTime(now) ==
  <<"2", "0", "0", "6", "-", "0", "1", "-", "0", "2", "T", "1", "5", ":", "0", "4", ":", "0">> \o <<Digits[now + 1]>> \o <<"Z">>

\* KeepForHost testing the prefix base without the "/"
KeepForHost_NoSlash(loc, base) == HasPrefix(loc, base)

\* The test of the filter loop: HasPrefix(info.loc, base+"/") || info.loc == base
KeepForHost(loc, base) == HasPrefix(loc, base \o Slash) \/ loc = base

RECURSIVE FilterInfos(_, _)
FilterInfos(infos, base) ==
  IF infos = <<>> THEN <<>>
  ELSE (IF KeepForHost(Head(infos), base) THEN <<Head(infos)>> ELSE <<>>)
         \o FilterInfos(Tail(infos), base)

\* WithRoot appending the root whether or not it was found
WithRoot_Always(filtered, base) == Append(filtered, base)

\* if !hasRoot { filteredInfos = append(filteredInfos, pathInfo{loc: base}) }
WithRoot(filtered, base) ==
  IF \E i \in DOMAIN filtered : filtered[i] = base
    THEN filtered
    ELSE Append(filtered, base)

\* s with x put before the first element that is not less than x
RECURSIVE InsertSorted(_, _)
InsertSorted(s, x) ==
  IF s = <<>> THEN <<x>>
  ELSE IF StrLess(Head(s), x) THEN <<Head(s)>> \o InsertSorted(Tail(s), x)
  ELSE <<x>> \o s

\* SortSlice left out: the entries stay in the order they were collected
SortSlice_Unsorted(s) == s

\* sort.Slice(filteredInfos, func(i, j) { return loc[i] < loc[j] })
RECURSIVE SortSlice(_)
SortSlice(s) ==
  IF s = <<>> THEN <<>> ELSE InsertSorted(SortSlice(Tail(s)), Head(s))

\* Priority giving 1.0 to every loc that begins with base
Priority_Prefix(base, loc) == IF HasPrefix(loc, base) THEN 10 ELSE 8
\* priority := 0.8; if base != "" && info.loc == base { priority = 1.0 }
\* (in tenths)
Priority(base, loc) == IF base # <<>> /\ loc = base THEN 10 ELSE 8

\* urlset.URLs for the snapshot infos (in map iteration order); base is ""
\* when there is no request.
SitemapURLs(infos, hasReq, base, now) ==
  LET filtered == IF hasReq THEN WithRoot(FilterInfos(infos, base), base) ELSE infos
      sorted == SortSlice(filtered)
  IN  [i \in DOMAIN sorted |->
         [loc |-> sorted[i], lastmod |-> FormatTime(now),
          priority |-> Priority(base, sorted[i])]]

\* xml.EscapeText on the bytes of the model
RECURSIVE EscapeText(_)
EscapeText(s) ==
  IF s = <<>> THEN <<>>
  ELSE (CASE Head(s) = "<" -> <<"&", "l", "t", ";">>
          [] Head(s) = ">" -> <<"&", "g", "t", ";">>
          [] OTHER -> <<Head(s)>>) \o EscapeText(Tail(s))

\* strconv.FormatFloat(p, 'g', -1, 64) of a priority given in tenths
FormatPriority(p) ==
  IF p % 10 = 0 THEN <<Digits[(p \div 10) + 1]>>
  ELSE <<Digits[(p \div 10) + 1], ".", Digits[(p % 10) + 1]>>

RECURSIVE MarshalURLs(_)
MarshalURLs(urls) ==
  IF urls = <<>> THEN <<>>
  ELSE <<"\n  <url>", "\n    <loc>">> \o EscapeText(Head(urls).loc) \o <<"</loc>">>
         \o <<"\n    <lastmod>">> \o Head(urls).lastmod \o <<"</lastmod>">>
         \o <<"\n    <priority>">> \o FormatPriority(Head(urls).priority)
         \o <<"</priority>", "\n  </url>">>
         \o MarshalURLs(Tail(urls))

\* []byte(xml.Header + string(xml.MarshalIndent(urlset, "", "  ")))
SitemapXML(urls) ==
  <<"<?xml version=\"1.0\" encoding=\"UTF-8\"?>\n",
    "<urlset xmlns=\"http://www.sitemaps.org/schemas/sitemap/0.9\">">>
    \o MarshalURLs(urls)
    \o (IF urls = <<>> THEN <<>> ELSE <<"\n">>) \o <<"</urlset>">>

buildRobotsTxt_URLScheme(req, sitemapPath) ==
  <<"U", "s", "e", "r", "-", "a", "g", "e", "n", "t", ":", " ", "*">> \o <<"\n">>
    \o <<"S", "i", "t", "e", "m", "a", "p", ":", " ">> \o req.scheme \o SchemeSep
    \o req.host \o sitemapPath \o <<"\n">>
\* fmt.Sprintf("User-agent: *\nSitemap: %s\n", scheme + "://" + host + sitemapPath)
buildRobotsTxt(req, sitemapPath) ==
  <<"U", "s", "e", "r", "-", "a", "g", "e", "n", "t", ":", " ", "*">> \o <<"\n">>
    \o <<"S", "i", "t", "e", "m", "a", "p", ":", " ">> \o Base(req) \o sitemapPath \o <<"\n">>

\* The orders in which ranging over the map paths can yield its keys.
RECURSIVE SetToSeq(_)
SetToSeq(S) ==
  IF S = {} THEN <<>>
  ELSE LET x == CHOOSE y \in S : TRUE IN <<x>> \o SetToSeq(S \ {x})

IterationOrders(S) ==
  LET s == SetToSeq(S) IN {[i \in DOMAIN s |-> p[s[i]]] : p \in Permutations(S)}

(***************************************************************************)
(* Bounds and inputs.                                                      *)
(***************************************************************************)
\* Requests forwarded to the next handler in one behaviour
MaxForwarded == 2

\* Clock readings 0..MaxClock
MaxClock == 1

Clock == 0..MaxClock

DefaultSitemapPath == <<"/", "s", "i", "t", "e", "m", "a", "p", ".", "x", "m", "l">>

DefaultRobotsPath == <<"/", "r", "o", "b", "o", "t", "s", ".", "t", "x", "t">>

\* The ignore option of the README's example configuration:
\* "^/admin/.*" and ".*\\.log$"
UserPatterns ==
  << Prefix(<<"/", "a", "d", "m", "i", "n", "/">>), Suffix(<<".", "l", "o", "g">>) >>

GtmIDs == { <<>>, <<"G", "T", "M", "-", "1">> }

Request(xfp, scheme, host, path) ==
  [xfp |-> xfp, scheme |-> scheme, host |-> host, path |-> path]

Https == <<"h", "t", "t", "p", "s">>

Http == <<"h", "t", "t", "p">>

HostA == <<"a", ".", "c", "o", "m">>

HostB == <<"b", ".", "c", "o", "m">>

HostAPort == <<"a", ".", "c", "o", "m", ":", "8", "0">>

PathRoot == <<"/">>

PathX == <<"/", "x">>

PathXSlash == <<"/", "x", "/">>

PathXSlashes == <<"/", "x", "/", "/">>

PathPng == <<"/", "i", ".", "p", "n", "g">>

PathPngDir == <<"/", "i", ".", "p", "n", "g", "/", "v">>

PathAdmin == <<"/", "a", "d", "m", "i", "n", "/", "x">>

PathConfig == <<"/", "C", "o", "n", "f", "i", "g">>

\* Requests of the specification Spec: one origin, every kind of path.
Requests ==
  { Request(Https, <<>>, HostA, p) :
      p \in { PathRoot, PathXSlash, PathPng, PathPngDir, PathAdmin, PathConfig,
              DefaultSitemapPath, DefaultRobotsPath } }

\* Requests of the specification SpecSitemap: several origins, few paths;
\* a request that came without X-Forwarded-Proto and, as a server request
\* does, with an empty URL.Scheme; a request whose path ends in "//".
OriginRequests ==
  { Request(o[1], o[2], o[3], p) :
      o \in { <<Https, Http, HostA>>, <<(<<>>), Http, HostA>>,
              <<Https, <<>>, HostAPort>>, <<Https, <<>>, HostB>> },
      p \in { PathRoot, PathX, DefaultSitemapPath, DefaultRobotsPath } }
    \cup { Request(<<>>, <<>>, HostA, PathX),
           Request(Https, <<>>, HostA, PathXSlashes) }

AllRequests == Requests \cup OriginRequests

Header(ct, ce, cl) ==
  [ContentType |-> ct, ContentEncoding |-> ce, ContentLength |-> cl]

NoHeader == Header(<<>>, <<>>, <<>>)

Handler(ops, header) == [ops |-> ops, header |-> header]

Html == <<"<", "h", "e", "a", "d", ">", "<", "/", "h", "e", "a", "d", ">", "<", "B", "O", "D", "Y", " ", "a", ">", "x">>

\* A text whose first "<body" has no ">" before the first "</head>"
HtmlOpenBody == <<"<", "b", "o", "d", "y", " ", "<", "/", "h", "e", "a", "d", ">", "x">>

HtmlType == <<"T", "e", "x", "t", "/", "H", "T", "M", "L", ";", " ", "c", "h", "a", "r", "s", "e", "t", "=", "u", "t", "f", "-", "8">>

JsonType == <<"a", "p", "p", "l", "i", "c", "a", "t", "i", "o", "n", "/", "j", "s", "o", "n">>

PlainType == <<"t", "e", "x", "t", "/", "p", "l", "a", "i", "n">>

GzipUpper == <<"G", "Z", "I", "P">>

\* A gzip member of Html whose trailer does not match
CorruptGzip == <<GzipMagic>> \o Deflate(Html) \o <<"x">>

\* What the next handler can do in the specification Spec.
Handlers ==
  { Handler(<<WriteHeader(StatusOK), Write(Html)>>, Header(HtmlType, <<>>, <<"2", "2">>)),
    Handler(<<Write(Html)>>, Header(TextHTML, <<>>, <<>>)),
    Handler(<<Write(HtmlOpenBody)>>, Header(TextHTML, <<>>, <<>>)),
    Handler(<<Write(Gzip(Html))>>, Header(TextHTML, GzipName, <<"3", "5">>)),
    Handler(<<Write(Html)>>, Header(TextHTML, GzipName, <<>>)),
    Handler(<<>>, Header(TextHTML, GzipUpper, <<>>)),
    Handler(<<Write(CorruptGzip)>>, Header(TextHTML, GzipName, <<>>)),
    Handler(<<Write(<<"x">>)>>, Header(JsonType, <<>>, <<"1">>)),
    Handler(<<Write(Gzip(<<"x", "x">>))>>, Header(JsonType, GzipUpper, <<>>)),
    Handler(<<WriteHeader(404), Write(Html)>>, Header(TextHTML, <<>>, <<>>)),
    Handler(<<WriteHeader(404), Write(Gzip(Html))>>, Header(TextHTML, GzipName, <<>>)),
    Handler(<<Write(<<"x">>), WriteHeader(500)>>, Header(PlainType, <<>>, <<>>)),
    Handler(<<>>, NoHeader) }

\* What the next handler can do in the specification SpecSitemap.
PlainHandlers ==
  { Handler(<<Write(<<"x">>)>>, Header(PlainType, <<>>, <<>>)),
    Handler(<<WriteHeader(404)>>, NoHeader) }

(***************************************************************************)
(* State.                                                                  *)
(*   created     the call of New: its Config and whether it returned an    *)
(*               error                                                     *)
(*   sg          the fields of sitemapGenerator fixed by New               *)
(*   paths       sg.paths, the set of recorded URLs                        *)
(*   last        the latest call that returned: the request, what the next *)
(*               handler did (down.ops) and left in the buffering writer   *)
(*               and the header map (down), the branch                     *)
(*               taken and what the client writer received (client, and    *)
(*               urls, the url entries of a sitemap), and the registry as  *)
(*               it was when the call began (before)                       *)
(*   observed    history: base and canonical URL of every forwarded        *)
(*               request that returned with a non-ignored path and a       *)
(*               captured status of 200                                    *)
(*   nForwarded  number of requests forwarded so far                       *)
(*   variant     which build of the middleware runs: the one of seo.go, or *)
(*               the one that writes the sitemap to a file every minute    *)
(*   mu          the goroutine that holds sg.mu, or NoHolder               *)
(*   gor         per goroutine: the call it runs (kind), the URL and       *)
(*               whether the call records it, its position in the call's   *)
(*               program (pc), the slice the snapshot loop has filled so   *)
(*               far (infos) and, as history, the registry when its Lock   *)
(*               returned (atLock) and when it called Unlock (atUnlock)    *)
(***************************************************************************)
\* sg.ignores as New builds it
Ignores == UserPatterns \o defaultPatterns

\* mw after the handler h returned and the status was defaulted
Captured(h) ==
  LET ran == RunHandler(NewWriter, h.ops)
  IN  [ran EXCEPT !.status = DefaultStatus(ran.status)]

\* IsIgnored and Respond tabulated over the inputs of the model, so that each
\* is computed once per input and not once per step.
RECURSIVE IgnoredTable(_)
IgnoredTable(P) ==
  IF P = {} THEN <<>>
  ELSE LET p == CHOOSE q \in P : TRUE
       IN  (p :> IsIgnored(Ignores, p)) @@ IgnoredTable(P \ {p})

IgnoredOf == IgnoredTable({req.path : req \in AllRequests})

RECURSIVE RespondTable(_)
RespondTable(K) ==
  IF K = {} THEN <<>>
  ELSE LET k == CHOOSE q \in K : TRUE
       IN  (k :> Respond(k[1], Captured(k[2]), k[2].header, k[3]))
             @@ RespondTable(K \ {k})

RespondOf == RespondTable(GtmIDs \X (Handlers \cup PlainHandlers) \X BOOLEAN)

VARIABLES created, sg, paths, last, observed, nForwarded, variant, mu, gor

\* The state of the goroutines and of the mutex
conc == <<variant, mu, gor>>

vars == <<created, sg, paths, last, observed, nForwarded, variant, mu, gor>>

NoRequest == Request(<<>>, <<>>, <<>>, <<>>)

NoResponse == [status |-> 0, body |-> <<>>, header |-> NoHeader]

Call(kind, req, ignored, down, branch, client, urls, before) ==
  [kind |-> kind, req |-> req, ignored |-> ignored, down |-> down,
   branch |-> branch, client |-> client, urls |-> urls, before |-> before]

\* The Config handed to New.
Config(sitemapPath, robotsPath, ignore, gtmID) ==
  [SitemapPath |-> sitemapPath, RobotsPath |-> robotsPath,
   Ignore |-> ignore, GTMID |-> gtmID]

\* The configurations of the model: the README's, with and without an
\* analytics ID; two whose ignore list holds a pattern that does not
\* compile, as its first and as its last entry; one that gives the sitemap
\* and the robots file the same path.
Configs ==
  {Config(<<>>, <<>>, UserPatterns, id) : id \in GtmIDs}
    \cup {Config(<<>>, <<>>, <<UserPatterns[1], Invalid>>, <<>>),
          Config(<<>>, <<>>, <<Invalid, UserPatterns[2]>>, <<>>)}
    \cup {Config(DefaultRobotsPath, DefaultRobotsPath, UserPatterns, <<>>)}

\* The nil handler New returns with an error.
NilHandler ==
  [sitemapPath |-> <<>>, robotsPath |-> <<>>, ignores |-> <<>>, gtmID |-> <<>>]

\* The loop over config.Ignore: stops at the first pattern that does not
\* compile, with the patterns compiled so far.
RECURSIVE CompileAll(_, _)
CompileAll(patterns, ignores) ==
  IF patterns = <<>> THEN [ignores |-> ignores, err |-> FALSE]
  ELSE LET c == Compile(Head(patterns))
       IN  IF c.err THEN [ignores |-> ignores, err |-> TRUE]
           ELSE CompileAll(Tail(patterns), Append(ignores, c.re))

\* New leaving out the patterns that do not compile, without an error
New_SkipInvalid(config) ==
  LET Compiles(pattern) == ~Compile(pattern).err
  IN  [handler |-> [sitemapPath |-> IF config.SitemapPath = <<>> THEN DefaultSitemapPath
                                    ELSE config.SitemapPath,
                    robotsPath |-> IF config.RobotsPath = <<>> THEN DefaultRobotsPath
                                   ELSE config.RobotsPath,
                    ignores |-> SelectSeq(config.Ignore, Compiles) \o defaultPatterns,
                    gtmID |-> config.GTMID],
       err |-> FALSE]

\* New: the default paths, the user patterns followed by the defaults, an
\* empty registry; or an error and no handler.
New(config) ==
  LET user == CompileAll(config.Ignore, <<>>)
  IN  IF user.err THEN [handler |-> NilHandler, err |-> TRUE]
      ELSE [handler |-> [sitemapPath |-> IF config.SitemapPath = <<>> THEN DefaultSitemapPath
                                         ELSE config.SitemapPath,
                         robotsPath |-> IF config.RobotsPath = <<>> THEN DefaultRobotsPath
                                        ELSE config.RobotsPath,
                         ignores |-> user.ignores \o defaultPatterns,
                         gtmID |-> config.GTMID],
            err |-> FALSE]

\* The goroutines of the model
Goroutines == {"g1", "g2", "g3"}

NoHolder == "none"

SeoVariant == "seo"

FileVariant == "file"

Idle ==
  [kind |-> "idle", url |-> <<>>, record |-> FALSE, pc |-> 1, infos |-> <<>>,
   atLock |-> {}, atUnlock |-> {}]

InitHandler(configs) ==
  /\ \E config \in configs :
       /\ created = [config |-> config, err |-> New(config).err]
       /\ sg = New(config).handler
  /\ paths = {}
  /\ last = Call("none", NoRequest, FALSE, NoResponse, "none", NoResponse, <<>>, {})
  /\ observed = {}
  /\ nForwarded = 0
  /\ mu = NoHolder
  /\ gor = [p \in Goroutines |-> Idle]

Init ==
  /\ InitHandler(Configs)
  /\ variant = SeoVariant

\* Route testing the robots path first
Route_RobotsFirst(handler, path) ==
  IF path = handler.robotsPath THEN "robots"
  ELSE IF path = handler.sitemapPath THEN "sitemap"
  ELSE "forward"

\* The tests at the head of ServeHTTP, in their order: the sitemap path,
\* then the robots path, then the next handler.
Route(handler, path) ==
  IF path = handler.sitemapPath THEN "sitemap"
  ELSE IF path = handler.robotsPath THEN "robots"
  ELSE "forward"

\* ServeHTTP, path == sg.sitemapPath: the sitemap for the request's origin.
\* infos is the snapshot in the order the map yielded it.
ServeSitemap(req, now, infos) ==
  /\ ~created.err
  /\ Route(sg, req.path) = "sitemap"
  /\ LET urls == SitemapURLs(infos, TRUE, Base(req), now)
     IN  last' = Call("sitemap", req, FALSE, NoResponse, "sitemap",
                      [status |-> StatusOK, body |-> SitemapXML(urls),
                       header |-> Header(<<"a", "p", "p", "l", "i", "c", "a", "t", "i", "o", "n", "/", "x", "m", "l">>, <<>>, <<>>)],
                      urls, paths)
  /\ UNCHANGED <<created, sg, paths, observed, nForwarded, conc>>

\* ServeHTTP, path == sg.robotsPath
ServeRobots(req) ==
  /\ ~created.err
  /\ Route(sg, req.path) = "robots"
  /\ last' = Call("robots", req, FALSE, NoResponse, "robots",
                  [status |-> StatusOK, body |-> buildRobotsTxt(req, sg.sitemapPath),
                   header |-> Header(PlainType, <<>>, <<>>)],
                  <<>>, paths)
  /\ UNCHANGED <<created, sg, paths, observed, nForwarded, conc>>

\* ServeHTTP, any other path: forward to the next handler h, answer the
\* client, record the URL.
ServeForward(req, h, writeErr) ==
  /\ ~created.err
  /\ Route(sg, req.path) = "forward"
  /\ nForwarded < MaxForwarded
  /\ LET ignored == IF sg.ignores = Ignores
                      THEN IgnoredOf[req.path]
                      ELSE IsIgnored(sg.ignores, req.path)
         fullURL == FullURL(req)
         mw == Captured(h)
         r == RespondOf[<<sg.gtmID, h, writeErr>>]
     IN  /\ last' = Call("forward", req, ignored,
                         [status |-> mw.status, body |-> mw.body, header |-> h.header,
                          ops |-> h.ops],
                         r.branch,
                         [status |-> r.status, body |-> r.body, header |-> r.header,
                          early |-> r.early, calls |-> r.calls],
                         <<>>, paths)
         /\ paths' = IF r.reachesEnd /\ ShouldRecord(ignored, mw.status)
                       THEN Record(paths, fullURL)
                       ELSE paths
         /\ observed' = IF ~ignored /\ mw.status = StatusOK
                          THEN observed \cup {[base |-> Base(req), url |-> fullURL]}
                          ELSE observed
  /\ nForwarded' = nForwarded + 1
  /\ UNCHANGED <<created, sg, conc>>

\* buildSitemapXML(nil): the sitemap of the whole registry, no request.
BuildSnapshot(now, infos) ==
  /\ ~created.err
  /\ LET urls == SitemapURLs(infos, FALSE, <<>>, now)
     IN  last' = Call("snapshot", NoRequest, FALSE, NoResponse, "snapshot",
                      [status |-> 0, body |-> SitemapXML(urls), header |-> NoHeader],
                      urls, paths)
  /\ UNCHANGED <<created, sg, paths, observed, nForwarded, conc>>

Next ==
  \/ \E req \in Requests, now \in Clock, infos \in IterationOrders(paths) :
       ServeSitemap(req, now, infos)
  \/ \E req \in Requests : ServeRobots(req)
  \/ \E req \in Requests, h \in Handlers, writeErr \in BOOLEAN :
       ServeForward(req, h, writeErr)
  \/ \E now \in Clock, infos \in IterationOrders(paths) : BuildSnapshot(now, infos)

Spec == Init /\ [][Next]_vars

NextSitemap ==
  \/ \E req \in OriginRequests, now \in Clock, infos \in IterationOrders(paths) :
       ServeSitemap(req, now, infos)
  \/ \E req \in OriginRequests : ServeRobots(req)
  \/ \E req \in OriginRequests, h \in PlainHandlers, writeErr \in BOOLEAN :
       ServeForward(req, h, writeErr)
  \/ \E now \in Clock, infos \in IterationOrders(paths) : BuildSnapshot(now, infos)

\* SpecSitemap starts without an analytics ID: its handlers send no HTML.
InitSitemap ==
  /\ InitHandler({config \in Configs : config.GTMID = <<>>})
  /\ variant = SeoVariant

SpecSitemap == InitSitemap /\ [][NextSitemap]_vars

(***************************************************************************)
(* Goroutines.  The server runs ServeHTTP of each request in a goroutine   *)
(* of its own; the build that writes the sitemap to a file also runs       *)
(* generateSitemapPeriodically.  A call is a program: the sequence of      *)
(* steps it makes that touch the mutex, the registry, the next handler,    *)
(* the client or the file.                                                 *)
(*   "lock"    sg.mu.Lock()                                                *)
(*   "insert"  sg.paths[fullURL] = struct{}{}                              *)
(*   "copy"    for p := range sg.paths { infos = append(infos, ...) }      *)
(*   "unlock"  sg.mu.Unlock()                                              *)
(*   "next"    sg.next.ServeHTTP, which may never return                   *)
(*   "respond" the WriteHeader and Write of a forwarded response           *)
(*   "build"   filter, sort, MarshalIndent                                 *)
(*   "write"   the WriteHeader and Write of a sitemap response             *)
(*   "file"    MkdirAll, WriteFile                                         *)
(***************************************************************************)
Variants == {SeoVariant, FileVariant}

\* buildSitemapXML
SnapshotProgram == <<"lock", "copy", "unlock", "build">>

\* Program holding the mutex until the sitemap is serialized
Program_LockedBuild(v, kind, record) ==
  CASE kind = "forward" /\ v = SeoVariant ->
         <<"next", "respond">> \o (IF record THEN <<"lock", "insert", "unlock">> ELSE <<>>)
    [] kind = "forward" /\ v = FileVariant ->
         (IF record THEN <<"lock", "insert", "unlock">> ELSE <<>>) \o <<"next">>
    [] kind = "sitemap" -> <<"lock", "copy", "build", "unlock">> \o <<"write">>
    [] kind = "generate" -> <<"lock", "copy", "build", "unlock">> \o <<"file">>
    [] OTHER -> <<>>

\* The steps of a call.  seo.go forwards, answers and then records; the
\* file build records and then forwards, the handler writing to the client
\* itself.
Program(v, kind, record) ==
  CASE kind = "forward" /\ v = SeoVariant ->
         <<"next", "respond">> \o (IF record THEN <<"lock", "insert", "unlock">> ELSE <<>>)
    [] kind = "forward" /\ v = FileVariant ->
         (IF record THEN <<"lock", "insert", "unlock">> ELSE <<>>) \o <<"next">>
    [] kind = "sitemap" -> SnapshotProgram \o <<"write">>
    [] kind = "generate" -> SnapshotProgram \o <<"file">>
    [] OTHER -> <<>>

\* The step a goroutine is about to make, "done" after the last
Label(p) ==
  LET prog == Program(variant, gor[p].kind, gor[p].record)
  IN  IF gor[p].pc <= Len(prog) THEN prog[gor[p].pc] ELSE "done"

Advance(p) == [gor EXCEPT ![p].pc = @ + 1]

\* sync.Mutex.Lock returns only when no goroutine holds the mutex
CanLock_Always(holder) == TRUE

CanLock(holder) == holder = NoHolder

\* The requests of the goroutines: two paths that are recorded and one
\* that the patterns of both builds ignore.
GoRequests ==
  {Request(Https, <<>>, HostA, p) : p \in {PathRoot, PathX, PathAdmin}}

\* Whether a forwarded call inserts its URL: seo.go tests the patterns and
\* the captured status, the file build the user patterns alone.
Records(v, req, h) ==
  IF v = SeoVariant
    THEN RespondOf[<<sg.gtmID, h, FALSE>>].reachesEnd
           /\ ShouldRecord(IgnoredOf[req.path], Captured(h).status)
    ELSE ~IsIgnored(created.config.Ignore, req.path)

\* A request arrives and ServeHTTP starts in the goroutine p.
BeginForward(p, req, h) ==
  /\ ~created.err
  /\ gor[p].kind = "idle"
  /\ req.path # sg.sitemapPath
  /\ gor' = [gor EXCEPT ![p] = [Idle EXCEPT !.kind = "forward",
                                           !.url = FullURL(req),
                                           !.record = Records(variant, req, h)]]
  /\ UNCHANGED <<created, sg, paths, last, observed, nForwarded, variant, mu>>

BeginSitemap(p) ==
  /\ ~created.err
  /\ gor[p].kind = "idle"
  /\ gor' = [gor EXCEPT ![p] = [Idle EXCEPT !.kind = "sitemap"]]
  /\ UNCHANGED <<created, sg, paths, last, observed, nForwarded, variant, mu>>

\* The ticker of generateSitemapPeriodically fires.
BeginGenerate(p) ==
  /\ ~created.err
  /\ variant = FileVariant
  /\ gor[p].kind = "idle"
  /\ \A q \in Goroutines : gor[q].kind # "generate"
  /\ gor' = [gor EXCEPT ![p] = [Idle EXCEPT !.kind = "generate"]]
  /\ UNCHANGED <<created, sg, paths, last, observed, nForwarded, variant, mu>>

MuLock(p) ==
  /\ Label(p) = "lock"
  /\ CanLock(mu)
  /\ mu' = p
  /\ gor' = [gor EXCEPT ![p].pc = @ + 1, ![p].atLock = paths]
  /\ UNCHANGED <<created, sg, paths, last, observed, nForwarded, variant>>

InsertPath(p) ==
  /\ Label(p) = "insert"
  /\ paths' = Record(paths, gor[p].url)
  /\ gor' = Advance(p)
  /\ UNCHANGED <<created, sg, last, observed, nForwarded, variant, mu>>

\* One round of the loop over the map: a key not yet visited is appended;
\* the loop ends when there is none.
CopyPaths(p) ==
  /\ Label(p) = "copy"
  /\ LET seen == {gor[p].infos[i] : i \in DOMAIN gor[p].infos}
     IN  IF paths \ seen = {}
           THEN gor' = Advance(p)
           ELSE \E u \in paths \ seen :
                  gor' = [gor EXCEPT ![p].infos = Append(@, u)]
  /\ UNCHANGED <<created, sg, paths, last, observed, nForwarded, variant, mu>>

MuUnlock(p) ==
  /\ Label(p) = "unlock"
  /\ mu' = NoHolder
  /\ gor' = [gor EXCEPT ![p].pc = @ + 1, ![p].atUnlock = paths]
  /\ UNCHANGED <<created, sg, paths, last, observed, nForwarded, variant>>

\* The next handler returns.
NextReturns(p) ==
  /\ Label(p) = "next"
  /\ gor' = Advance(p)
  /\ UNCHANGED <<created, sg, paths, last, observed, nForwarded, variant, mu>>

\* The steps that touch neither the mutex nor the registry.
Outside(p) ==
  /\ Label(p) \in {"respond", "build", "write", "file"}
  /\ gor' = Advance(p)
  /\ UNCHANGED <<created, sg, paths, last, observed, nForwarded, variant, mu>>

InitMutex ==
  /\ InitHandler({Config(<<>>, <<>>, UserPatterns, <<>>)})
  /\ variant \in Variants

NextMutex ==
  \/ \E p \in Goroutines, req \in GoRequests, h \in PlainHandlers : BeginForward(p, req, h)
  \/ \E p \in Goroutines : BeginSitemap(p)
  \/ \E p \in Goroutines : BeginGenerate(p)
  \/ \E p \in Goroutines : MuLock(p)
  \/ \E p \in Goroutines : InsertPath(p)
  \/ \E p \in Goroutines : CopyPaths(p)
  \/ \E p \in Goroutines : MuUnlock(p)
  \/ \E p \in Goroutines : NextReturns(p)
  \/ \E p \in Goroutines : Outside(p)

SpecMutex == InitMutex /\ [][NextMutex]_vars
(***************************************************************************)
(* Properties.                                                             *)
(***************************************************************************)
Forwarded == last.kind = "forward"

IsHTML(header) == HasPrefix(ToLower(header.ContentType), TextHTML)

IsGzipEncoded(header) == EqualFold(header.ContentEncoding, GzipName)

ValidGzip(b) == NewReaderOK(b) /\ ReadAllOK(b)

Locs(urls) == {urls[i].loc : i \in DOMAIN urls}

\* C1: a forwarded request whose path matches no ignore pattern and whose
\* captured status is 200 has its canonical URL in the registry when
\* ServeHTTP has returned, whatever branch wrote the response.
C1_RecordedOn200 ==
  (Forwarded /\ ~IsIgnored(sg.ignores, last.req.path) /\ last.down.status = StatusOK)
    => FullURL(last.req) \in paths

\* C2: a forwarded request whose captured status is not 200 leaves the
\* registry as it was, whether or not its path is ignored.
C2_Non200NeverRecorded ==
  [][(last'.kind = "forward" /\ last'.down.status # StatusOK) => paths' = paths]_vars

C2_Witness ==
  /\ Forwarded
  /\ last.down.status = 404
  /\ ~IsIgnored(sg.ignores, last.req.path)
  /\ FullURL(last.req) \notin paths

\* C3: a request whose path an ignore pattern matches (the user pattern
\* ^/admin/.*, the default extension pattern, the default (?i)config) never
\* adds a URL, whatever its status; every URL that enters the registry is the
\* canonical URL of the request just served, whose path no pattern matches
\* and whose status is 200.
C3_OnlyUnignored200Inserted ==
  [][/\ (last'.kind = "forward" /\ last'.req.path \in {PathPng, PathAdmin, PathConfig})
          => paths' = paths
     /\ (last'.kind = "forward" /\ IsIgnored(sg.ignores, last'.req.path))
          => paths' = paths
     /\ \A u \in paths' \ paths :
          /\ last'.kind = "forward"
          /\ u = FullURL(last'.req)
          /\ ~IsIgnored(sg.ignores, last'.req.path)
          /\ last'.down.status = StatusOK]_vars

C3_Witness ==
  /\ Forwarded
  /\ last.req.path = PathAdmin
  /\ last.down.status = StatusOK
  /\ last.branch = "passthrough"
  /\ paths # {}
  /\ FullURL(last.req) \notin paths

\* C4: every loc of a sitemap is the request's base scheme://host or begins
\* with base + "/", and no request of another scheme, host or port has that
\* loc as its canonical URL.
C4_HostScoped ==
  last.kind = "sitemap" =>
    \A loc \in Locs(last.urls) :
      /\ loc = Base(last.req) \/ HasPrefix(loc, Base(last.req) \o Slash)
      /\ \A r \in AllRequests : FullURL(r) = loc => Base(r) = Base(last.req)

C4_Witness ==
  /\ last.kind = "sitemap"
  /\ Base(last.req) = Https \o SchemeSep \o HostA
  /\ paths = { Https \o SchemeSep \o HostA \o PathX, Https \o SchemeSep \o HostAPort \o PathX }
  /\ Locs(last.urls) = { Https \o SchemeSep \o HostA, Https \o SchemeSep \o HostA \o PathX }

\* C5: a sitemap built for a request holds exactly one entry whose loc is the
\* request's base, and that entry has priority 1.0, whether the registry
\* held the base or not.
C5_OneRoot ==
  last.kind = "sitemap" =>
    /\ Cardinality({i \in DOMAIN last.urls : last.urls[i].loc = Base(last.req)}) = 1
    /\ \A i \in DOMAIN last.urls :
         last.urls[i].loc = Base(last.req) => last.urls[i].priority = 10

C5_Witness ==
  /\ last.kind = "sitemap"
  /\ Base(last.req) \in paths
  /\ Len(last.urls) = 2

\* C6: the entries of every sitemap, built with or without a request, are in
\* strictly ascending bytewise order of loc.
C6_StrictlySorted ==
  last.kind \in {"sitemap", "snapshot"} =>
    \A i \in 1..(Len(last.urls) - 1) :
      StrLess(last.urls[i].loc, last.urls[i + 1].loc)

C6_Witness ==
  /\ last.kind = "sitemap"
  /\ Base(last.req) \notin paths
  /\ Len(last.urls) = 2
  /\ Cardinality(paths) = 2

\* C7: once a non-ignored request of an origin has returned with status 200,
\* every later sitemap for that origin lists its canonical URL.
C7_ListedAfter200 ==
  last.kind = "sitemap" =>
    \A o \in observed : o.base = Base(last.req) => o.url \in Locs(last.urls)

\* C8: with no analytics ID, or a Content-Type that is not text/html, or a
\* status other than 200, the client receives the bytes and the status the
\* handler left in the buffering writer, gzip encoded or not.
C8_Passthrough ==
  (/\ Forwarded
   /\ \/ sg.gtmID = <<>>
      \/ ~IsHTML(last.down.header)
      \/ last.down.status # StatusOK)
    => /\ last.client.body = last.down.body
       /\ last.client.status = last.down.status

C8_Witness ==
  /\ Forwarded
  /\ sg.gtmID # <<>>
  /\ ~IsHTML(last.down.header)
  /\ IsGzipEncoded(last.down.header)
  /\ ValidGzip(last.down.body)
  /\ last.branch = "passthrough"

\* C9 as stated: for every 200 text/html response with Content-Encoding gzip
\* and analytics enabled the body sent is a gzip stream that decompresses to
\* the injected text of the decompressed original.
C9_GzipRoundTripAlways ==
  (/\ Forwarded
   /\ sg.gtmID # <<>>
   /\ IsHTML(last.down.header)
   /\ IsGzipEncoded(last.down.header)
   /\ last.down.status = StatusOK)
    => /\ ValidGzip(last.client.body)
       /\ Gunzip(last.client.body) = Inject(sg.gtmID, Gunzip(last.down.body))

\* C9, amended: the same, for a buffered body that is a valid gzip stream and
\* a recompression that does not fail.
C9_GzipRoundTrip ==
  (/\ Forwarded
   /\ sg.gtmID # <<>>
   /\ IsHTML(last.down.header)
   /\ IsGzipEncoded(last.down.header)
   /\ last.down.status = StatusOK
   /\ ValidGzip(last.down.body)
   /\ last.branch # "gzipWriteErr")
    => /\ ValidGzip(last.client.body)
       /\ Gunzip(last.client.body) = Inject(sg.gtmID, Gunzip(last.down.body))

C9_Witness ==
  /\ Forwarded
  /\ last.branch = "rewrite"
  /\ IsGzipEncoded(last.down.header)
  /\ Gunzip(last.client.body) # Gunzip(last.down.body)

\* C10: when decompression or recompression of the buffered body fails the
\* client receives the handler's status and the buffered bytes unchanged.
C10_GzipFailureFallsBack ==
  last.branch \in {"newReaderErr", "readAllErr", "gzipWriteErr"}
    => /\ last.client.status = last.down.status
       /\ last.client.body = last.down.body
       /\ last.client.header = last.down.header

C10_Witness ==
  /\ last.branch = "readAllErr"
  /\ last.down.body # <<>>
  /\ last.client.body = last.down.body

C13_NewAllOrNothing ==
  /\ [](IF \E i \in DOMAIN created.config.Ignore : created.config.Ignore[i].kind = "invalid"
          THEN /\ created.err
               /\ sg = NilHandler
               /\ last.kind = "none"
               /\ paths = {}
          ELSE /\ ~created.err
               /\ sg.ignores = created.config.Ignore \o defaultPatterns
               /\ Len(sg.ignores) = Len(created.config.Ignore) + Len(defaultPatterns))
  /\ [][sg' = sg /\ created' = created]_vars

C13_Witness ==
  /\ created.err
  /\ created.config.Ignore[1].kind # "invalid"
  /\ created.config.Ignore[2].kind = "invalid"

\* C14: the registry after a step holds every URL it held before; a step
\* adds at most one URL, the canonical URL of the request of a forwarded
\* call; sitemap, robots and snapshot steps add nothing; recording a URL
\* already present leaves the registry as it was.
C14_NeverShrinks ==
  [][/\ paths \subseteq paths'
     /\ paths' \ paths \subseteq {FullURL(last'.req)}
     /\ last'.kind # "forward" => paths' = paths
     /\ FullURL(last'.req) \in paths => paths' = paths
     /\ last'.before = paths]_vars

C14_Witness ==
  /\ Forwarded
  /\ ~last.ignored
  /\ last.down.status = StatusOK
  /\ last.branch \in {"rewrite", "passthrough"}
  /\ FullURL(last.req) \in last.before
  /\ paths = last.before

\* The text a body carries: the body itself, or what it decompresses to
\* when the response is gzip encoded.
TextOf(header, body) == IF IsGzipEncoded(header) THEN Gunzip(body) ELSE body

\* C15: on the rewrite path the text sent is the text of the next handler
\* with the script block inserted once, immediately before its first
\* "</head>", and the noscript block inserted once, immediately after its
\* first opening body tag; a marker that is absent gets no block; every
\* other byte is kept, in order.
C15_InjectedAtMarkers ==
  last.branch = "rewrite" =>
    LET text == TextOf(last.down.header, last.down.body)
        sent == TextOf(last.down.header, last.client.body)
        script == gtmScriptTemplate(sg.gtmID)
        noscript == gtmNoscriptTemplate(sg.gtmID)
        head == Index(text, HeadClose)
        tagEnd == BodyTagEnd(text)
        Part(i, j) == SubSeq(text, i, j)
        n == Len(text)
    IN  sent =
          CASE head = 0 /\ tagEnd = 0 -> text
            [] head = 0 /\ tagEnd # 0 -> Part(1, tagEnd) \o noscript \o Part(tagEnd + 1, n)
            [] head # 0 /\ tagEnd = 0 -> Part(1, head - 1) \o script \o Part(head, n)
            [] head # 0 /\ tagEnd # 0 /\ tagEnd < head ->
                 Part(1, tagEnd) \o noscript \o Part(tagEnd + 1, head - 1)
                   \o script \o Part(head, n)
            [] head # 0 /\ tagEnd # 0 /\ tagEnd > head ->
                 Part(1, head - 1) \o script \o Part(head, tagEnd)
                   \o noscript \o Part(tagEnd + 1, n)

\* C16: a rewritten response carries no Content-Length, whatever the next
\* handler set, and its other headers are the handler's; a passthrough
\* response carries the handler's headers unchanged, Content-Length
\* included.
C16_ContentLength ==
  /\ last.branch = "rewrite" =>
       /\ last.client.header.ContentLength = <<>>
       /\ last.client.header.ContentType = last.down.header.ContentType
       /\ last.client.header.ContentEncoding = last.down.header.ContentEncoding
  /\ last.branch = "passthrough" => last.client.header = last.down.header

C16_Witness ==
  /\ last.branch = "rewrite"
  /\ last.down.header.ContentLength # <<>>
  /\ IsGzipEncoded(last.down.header)
  /\ Len(last.client.body) # Len(last.down.body)

\* C18: in a sitemap built for a request an entry has priority 1.0 exactly
\* when its loc is the request's base scheme://host, and 0.8 otherwise; a
\* sitemap built without a request lists the whole registry and nothing
\* else, every entry with priority 0.8.
C18_Priority ==
  /\ last.kind = "sitemap" =>
       \A i \in DOMAIN last.urls :
         /\ last.urls[i].priority \in {8, 10}
         /\ last.urls[i].priority = 10 <=> last.urls[i].loc = Base(last.req)
  /\ last.kind = "snapshot" =>
       /\ Locs(last.urls) = paths
       /\ Len(last.urls) = Cardinality(paths)
       /\ \A i \in DOMAIN last.urls : last.urls[i].priority = 8

C18_Witness ==
  /\ last.kind = "snapshot"
  /\ Cardinality(paths) = 2
  /\ \E r \in OriginRequests : Base(r) \in Locs(last.urls)
  /\ \E r \in OriginRequests : r.host = HostB /\ FullURL(r) \in Locs(last.urls)

\* C20: a handler that returns without a WriteHeader call, with or without
\* Write calls, leaves a captured status of 200; the status the client
\* receives is the captured status; the response is rewritten only with a
\* captured status of 200 and passed through only when the analytics ID,
\* the Content-Type or the captured status rules rewriting out; the URL is
\* recorded exactly when the path is not ignored and the captured status
\* is 200 (in the branches that reach the recording test).
C20_OneStatus ==
  Forwarded =>
    /\ (\A i \in DOMAIN last.down.ops : last.down.ops[i].call # "WriteHeader")
         => last.down.status = StatusOK
    /\ last.client.status = last.down.status
    /\ last.branch \in {"rewrite", "gzipWriteErr"} => last.down.status = StatusOK
    /\ last.branch = "passthrough" =>
         (sg.gtmID = <<>> \/ ~IsHTML(last.down.header) \/ last.down.status # StatusOK)
    /\ last.down.status # StatusOK => paths = last.before
    /\ (last.branch \in {"rewrite", "passthrough"} /\ ~last.ignored)
         => (FullURL(last.req) \in paths <=>
               (last.down.status = StatusOK \/ FullURL(last.req) \in last.before))

C20_Witness ==
  /\ Forwarded
  /\ last.down.ops = <<>>
  /\ last.down.status = StatusOK
  /\ last.client.status = StatusOK
  /\ FullURL(last.req) \in paths \ last.before

\* C19: for a forwarded request no WriteHeader and no Write reaches the
\* client writer while the next handler runs; after it returned the client
\* writer receives exactly one WriteHeader and then exactly one Write, in
\* every branch, and the header deletion of the rewrite branch comes before
\* that WriteHeader.
C19_CaptureBeforeWrite ==
  Forwarded =>
    LET calls == last.client.calls
        At(name) == {i \in DOMAIN calls : calls[i] = name}
    IN  /\ last.client.early = <<>>
        /\ Cardinality(At("WriteHeader")) = 1
        /\ Cardinality(At("Write")) = 1
        /\ \A i \in At("WriteHeader"), j \in At("Write") : i < j
        /\ \A i \in At("Header.Del"), j \in At("WriteHeader") : i < j
        /\ last.client.header # last.down.header => At("Header.Del") # {}

C19_Witness ==
  /\ Forwarded
  /\ last.branch = "rewrite"
  /\ Len(last.down.ops) = 2
  /\ last.down.header.ContentLength # <<>>
  /\ last.client.calls = <<"Header.Del", "WriteHeader", "Write">>

\* The goroutine p is between a Lock and the Unlock that follows it.
Holding(p) ==
  LET prog == Program(variant, gor[p].kind, gor[p].record)
  IN  \E i \in 1..(gor[p].pc - 1) :
        /\ i <= Len(prog)
        /\ prog[i] = "lock"
        /\ \A j \in (i + 1)..(gor[p].pc - 1) : j <= Len(prog) => prog[j] # "unlock"

Snapshots(p) == gor[p].kind \in {"sitemap", "generate"}

Copied(p) == {gor[p].infos[i] : i \in DOMAIN gor[p].infos}

\* C11: in every interleaving of recording requests, sitemap requests and
\* the periodic generator, no two goroutines are between Lock and Unlock at
\* once; a snapshot holds each URL at most once and only URLs of the
\* registry; once its critical section has ended it holds every URL
\* inserted before the critical section began and none inserted after it
\* ended.
C11_SnapshotConsistent ==
  /\ \A p, q \in Goroutines : p # q => ~(Holding(p) /\ Holding(q))
  /\ \A p \in Goroutines :
       Snapshots(p) =>
         /\ Len(gor[p].infos) = Cardinality(Copied(p))
         /\ Copied(p) \subseteq paths
         /\ (gor[p].pc > 1 /\ ~Holding(p)) =>
              /\ gor[p].atLock \subseteq Copied(p)
              /\ Copied(p) \subseteq gor[p].atUnlock

C11_Witness ==
  \E p, q \in Goroutines :
    /\ gor[p].kind = "sitemap"
    /\ Label(p) = "build"
    /\ Len(gor[p].infos) = 1
    /\ Cardinality(paths) = 2
    /\ gor[q].kind = "forward"
    /\ Label(q) = "unlock"

\* C17: a goroutine holds the mutex only when its next step is the map
\* assignment, a round of the copy loop or the Unlock: never while the
\* next handler runs, while the sitemap is filtered, sorted or serialized,
\* or while bytes go to the client or to the file.  So whenever the mutex
\* is held its holder can take a step, whatever the next handlers do.
C17_MutexOnlyAroundSet ==
  /\ \A p \in Goroutines :
       /\ Holding(p) => (mu = p /\ Label(p) \in {"insert", "copy", "unlock"})
       /\ Label(p) \in {"next", "respond", "build", "write", "file"} => mu # p
  /\ mu # NoHolder =>
       /\ Holding(mu)
       /\ ENABLED (InsertPath(mu) \/ CopyPaths(mu) \/ MuUnlock(mu))

C17_Witness ==
  /\ variant = FileVariant
  /\ \E p, q, r \in Goroutines :
       /\ gor[p].kind = "forward" /\ Label(p) = "next"
       /\ gor[q].kind = "generate" /\ Label(q) = "file"
       /\ gor[r].kind = "forward" /\ mu = r /\ Label(r) = "insert"

\* C21: every URL of the registry is scheme://host/path with a non-empty
\* scheme, the X-Forwarded-Proto of a request if it has one and its URL
\* scheme if not, and that request's Host; it holds no "?" and no "#"; it
\* does not end with "/".
C21_CanonicalURL ==
  \A u \in paths :
    /\ Index(u, SchemeSep) > 1
    /\ \E r \in AllRequests :
         LET scheme == IF r.xfp # <<>> THEN r.xfp ELSE r.scheme
         IN  /\ scheme # <<>>
             /\ \/ u = scheme \o SchemeSep \o r.host
                \/ HasPrefix(u, scheme \o SchemeSep \o r.host \o Slash)
    /\ \A i \in DOMAIN u : u[i] \notin {"?", "#"}
    /\ ~HasSuffix(u, Slash)

\* C22: a request for sitemapPath or robotsPath is answered by the
\* middleware itself: the next handler is not invoked, the registry stays
\* as it was (the root entry a sitemap gains is in the output alone), and
\* a path that is both sitemapPath and robotsPath gets the sitemap.
C22_SynthesizedPaths ==
  [][last'.req.path \in {sg.sitemapPath, sg.robotsPath} =>
       /\ last'.kind \in {"sitemap", "robots"}
       /\ last'.req.path = sg.sitemapPath => last'.kind = "sitemap"
       /\ last'.down = NoResponse
       /\ nForwarded' = nForwarded
       /\ paths' = paths]_vars

C22_Witness ==
  /\ last.kind = "sitemap"
  /\ sg.sitemapPath = sg.robotsPath
  /\ last.req.path = sg.robotsPath
  /\ paths # {}
  /\ Base(last.req) \notin paths
  /\ Base(last.req) \in Locs(last.urls)

\* The status a response commits: the code of the first WriteHeader, or 200
\* when a Write comes first or the handler makes no call.
FirstStatus(ops) ==
  IF ops = <<>> \/ ops[1].call = "Write" THEN StatusOK ELSE ops[1].code

\* C23: whatever Write and WriteHeader calls the next handler makes, the
\* buffering writer captures the status the status tracker of the version
\* that does not rewrite would hold, the first committed one; so the status
\* sent to the client and the decision to record are those of that version.
C23_SameStatusAsTracker ==
  Forwarded =>
    /\ Tracked(last.down.ops) = FirstStatus(last.down.ops)
    /\ last.down.status = Tracked(last.down.ops)
    /\ last.client.status = Tracked(last.down.ops)
    /\ ShouldRecord(last.ignored, last.down.status)
         = ShouldRecord(last.ignored, Tracked(last.down.ops))

====
